---- MODULE Spec2Model ----
(***************************************************************************)
(* retry_durations: the Strategy iterator of src/src/lib.rs.               *)
(*                                                                         *)
(* Durations are counted in whole milliseconds (the unit of the jitter     *)
(* draw, Duration::from_millis).  Option<T> is a sequence: <<>> is None    *)
(* and <<v>> is Some(v).  The jitter ratio (an f32) is a rational          *)
(* jitter / JitterDen.  The widths of i32 and of Duration are scaled down  *)
(* (I32Bits, DurationBits) keeping i32::MAX ms < Duration::MAX.            *)
(***************************************************************************)
EXTENDS Integers, Sequences, FiniteSets

\* ---------------------------------------------------------------- bounds
\* modelled width of i32 (32 in the build)
I32Bits == 7
\* modelled width of a Duration in milliseconds
DurationBits == 15
\* pulls explored per Strategy
MaxPulls == 10
\* denominator of the modelled jitter ratios
JitterDen == 10

I32_MAX == 2 ^ (I32Bits - 1) - 1
I32_MIN == -(2 ^ (I32Bits - 1))
I32_MOD == 2 ^ I32Bits
DURATION_MAX == 2 ^ DurationBits - 1

\* 1000.0 in j(): milliseconds per second
MILLIS_PER_SEC == 1000

\* modelled width of usize (64 in the build)
UsizeBits == 16
USIZE_MAX == 2 ^ UsizeBits - 1
\* pulls explored per Strategy when two Strategies are built
BuilderPulls == 2

\* ---------------------------------------------------------------- inputs
DefaultDuration == 2 * MILLIS_PER_SEC
Durations == {0, 1, 3, 8, DefaultDuration}
DurationMaxes == {<<>>, <<5>>, <<10 * MILLIS_PER_SEC>>}
Kinds == {"Fixed", "Exponential"}
\* numerators over JitterDen: -0.5, 0, 0.1 (the default), 1, 1.5
DefaultJitter == 1
Jitters == {-5, 0, DefaultJitter, 10, 15}
\* #[default] of Kind
DefaultKind == "Exponential"
\* arguments of the builder's setters
SetterDurations == {3}
SetterDurationMaxes == {<<>>, <<5>>}
SetterJitters == {10}

VARIABLES
    duration,         \* Strategy.duration: the stored base
    duration_max,     \* Strategy.duration_max: Option<Duration>
    kind,             \* Strategy.kind
    jitter,           \* Strategy.jitter, numerator over JitterDen
    overflow_checks,  \* build profile: TRUE panics on integer overflow, FALSE wraps
    initial,          \* history: the duration configured at build()
    pulls,            \* history: number of calls of next()
    pc,               \* "built", "returned" (last next() returned) or "panicked"
    base,             \* history: `duration` local of the last update_duration
    spread,           \* history: first `j` of the last j() (the i32 cast)
    draw,             \* history: second `j` of the last j() (the rng draw)
    jittered,         \* history: value returned by the last j()
    item,             \* Option<Duration> returned by the last next()
    builder,          \* StrategyBuilder: one Option per field
    last_selector,    \* history: last of fixed() / exponential() called, or "none"
    other,            \* the Strategy of a second build() on the same builder: its
                      \* fields, its pulls and the sign of its last draw
    hint              \* Option of the last value size_hint() returned

vars == <<duration, duration_max, kind, jitter, overflow_checks, initial,
          pulls, pc, base, spread, draw, jittered, item,
          builder, last_selector, other, hint>>

\* the fields and history of the first Strategy
strategy == <<duration, duration_max, kind, jitter, initial,
              pulls, pc, base, spread, draw, jittered, item>>

config == <<duration_max, kind, jitter, overflow_checks, initial>>

\* ------------------------------------------------------- std::time::Duration
Min(a, b) == IF a <= b THEN a ELSE b
Max(a, b) == IF a >= b THEN a ELSE b

\* mutant: the product wraps at the width of a Duration
saturating_mul_Wrapping(d, n) == (d * n) % (DURATION_MAX + 1)
\* mutant: the product is not saturated
saturating_mul_Unchecked(d, n) == d * n
saturating_mul(d, n) == IF d * n > DURATION_MAX THEN DURATION_MAX ELSE d * n
saturating_add(a, b) == IF a + b > DURATION_MAX THEN DURATION_MAX ELSE a + b
saturating_sub(a, b) == IF b > a THEN 0 ELSE a - b

\* ------------------------------------------------------------- i32 arithmetic
\* two's complement wrap of an integer into i32
WrapI32(x) == ((x - I32_MIN) % I32_MOD) + I32_MIN
Overflows(x) == x > I32_MAX \/ x < I32_MIN
\* `as i32` on a float already truncated to an integer: saturating
CastI32(x) == IF x > I32_MAX THEN I32_MAX ELSE IF x < I32_MIN THEN I32_MIN ELSE x
\* `as u64` on an i32 followed by Duration::from_millis: a negative value
\* sign-extends to more milliseconds than any modelled Duration holds
MillisOfI32(x) == IF x < 0 THEN DURATION_MAX ELSE x

\* -------------------------------------------------------------------- Kind
\* mutant: Fixed grows like Exponential
Kind_next_AlwaysDouble(k, durration) == saturating_mul(durration, 2)
Kind_next(k, durration) ==
    IF k = "Fixed" THEN durration ELSE saturating_mul(durration, 2)

\* ---------------------------------------------------------------- Strategy
\* integer part (towards zero) of p / JitterDen
TruncDiv(p) == IF p >= 0 THEN p \div JitterDen ELSE -((-p) \div JitterDen)
Sign(p) == IF p > 0 THEN 1 ELSE IF p < 0 THEN -1 ELSE 0

\* mutant: the jitter ratio is left out of the product
SpreadValues_NoRatio(d, jn) == {CastI32(d)}
\* (d.as_secs_f32() * self.jitter * 1000.0) as i32.  The product is exact in
\* the rationals; the three single-precision roundings can leave a product
\* that is a non-zero whole number just below it, which truncates one short.
SpreadValues(d, jn) ==
    LET p == d * jn
        q == TruncDiv(p)
    IN  {CastI32(q)} \cup
        (IF p # 0 /\ p % JitterDen = 0 THEN {CastI32(q - Sign(p))} ELSE {})

\* the range (-j)..(j + 1) handed to Rng::i32, or a panic
RangeLow(j) == WrapI32(-j)
\* mutant: the excluded end is one too far
RangeEnd_OffByOne(j) == WrapI32(j + 2)
RangeEnd(j) == WrapI32(j + 1)
OverflowPanics(j) == overflow_checks /\ (Overflows(-j) \/ Overflows(j + 1))
\* fastrand panics on an empty range; an excluded end of i32::MIN has no
\* predecessor and is empty too
EmptyRange(j) == RangeEnd(j) = I32_MIN \/ RangeLow(j) > RangeEnd(j) - 1
JPanics(j) == OverflowPanics(j) \/ EmptyRange(j)
Draws(j) == RangeLow(j) .. (RangeEnd(j) - 1)

\* the if/else of j() on the drawn value
Jitter(d, j) ==
    IF 0 <= j
    THEN saturating_add(d, MillisOfI32(j))
    ELSE IF overflow_checks /\ Overflows(-j)
         THEN 0  \* unreachable: the overflow panicked before the draw
         ELSE saturating_sub(d, MillisOfI32(WrapI32(-j)))

\* mutant: the stored base is not clamped
NextStored_NoCeiling(d) == Kind_next(kind, d)
\* mutant: max instead of min against the ceiling
NextStored_CeilingMax(d) ==
    IF duration_max # <<>>
    THEN Max(Kind_next(kind, d), duration_max[1])
    ELSE Kind_next(kind, d)
\* the stored base written by update_duration
NextStored(d) ==
    IF duration_max # <<>>
    THEN Min(Kind_next(kind, d), duration_max[1])
    ELSE Kind_next(kind, d)

\* mutant: the returned value is not clamped
Clamp_NoClamp(v) == v
\* mutant: max instead of min against the ceiling
Clamp_Max(v) == IF duration_max # <<>> THEN Max(v, duration_max[1]) ELSE v
\* the value update_duration returns for the value j() returned
Clamp(v) == IF duration_max # <<>> THEN Min(v, duration_max[1]) ELSE v

\* ------------------------------------------------------- StrategyBuilder
\* StrategyBuilder::default(): no field set
StrategyBuilder_default ==
    [duration |-> <<>>, duration_max |-> <<>>, kind |-> <<>>, jitter |-> <<>>]
\* no Strategy
NotBuilt ==
    [duration |-> 0, duration_max |-> <<>>, kind |-> DefaultKind, jitter |-> 0,
     initial |-> 0, pulls |-> 0, pc |-> "unbuilt", drew |-> 0]
\* Some(value) of a builder field, or the field's default
UnwrapOr(opt, default) == IF opt = <<>> THEN default ELSE opt[1]

\* ------------------------------------------------------------- transitions
\* builder()..build(): every field from its setter or its default
Init ==
    /\ duration \in Durations
    /\ duration_max \in DurationMaxes
    /\ kind \in Kinds
    /\ jitter \in Jitters
    /\ overflow_checks \in BOOLEAN
    /\ initial = duration
    /\ pulls = 0
    /\ pc = "built"
    /\ base = duration
    /\ spread = 0
    /\ draw = 0
    /\ jittered = duration
    /\ item = <<>>
    /\ builder = StrategyBuilder_default
    /\ last_selector = "none"
    /\ other = NotBuilt
    /\ hint = <<>>

\* mutant: a Strategy that reached its ceiling turns Fixed
Pull_TurnsFixed ==
    /\ pc # "unbuilt"
    /\ pc # "panicked"
    /\ pulls < MaxPulls
    /\ pulls' = pulls + 1
    /\ base' = duration
    /\ duration' = NextStored(duration)
    /\ \E s \in SpreadValues(duration, jitter) :
          /\ spread' = s
          /\ IF JPanics(s)
             THEN /\ pc' = "panicked"
                  /\ UNCHANGED <<draw, jittered, item>>
             ELSE \E j \in Draws(s) :
                  /\ draw' = j
                  /\ jittered' = Jitter(duration, j)
                  /\ item' = <<Clamp(Jitter(duration, j))>>
                  /\ pc' = "returned"
    /\ kind' = IF duration_max = <<duration'>> THEN "Fixed" ELSE kind
    /\ UNCHANGED <<duration_max, jitter, overflow_checks, initial>>
    /\ UNCHANGED <<builder, last_selector, other, hint>>
\* Iterator::next -> update_duration -> j
Pull ==
    /\ pc # "unbuilt"
    /\ pc # "panicked"
    /\ pulls < MaxPulls
    /\ pulls' = pulls + 1
    /\ base' = duration
    /\ duration' = NextStored(duration)
    /\ \E s \in SpreadValues(duration, jitter) :
          /\ spread' = s
          /\ IF JPanics(s)
             THEN /\ pc' = "panicked"
                  /\ UNCHANGED <<draw, jittered, item>>
             ELSE \E j \in Draws(s) :
                  /\ draw' = j
                  /\ jittered' = Jitter(duration, j)
                  /\ item' = <<Clamp(Jitter(duration, j))>>
                  /\ pc' = "returned"
    /\ UNCHANGED config
    /\ UNCHANGED <<builder, last_selector, other, hint>>

\* mutant: the default size_hint of Iterator
size_hint_Default == <<0, <<>>>>
\* the pair size_hint returns
size_hint == <<USIZE_MAX, <<>>>>

\* Iterator::size_hint
SizeHint ==
    /\ pc # "unbuilt"
    /\ hint' = <<size_hint>>
    /\ UNCHANGED strategy
    /\ UNCHANGED <<overflow_checks, builder, last_selector, other>>

Next == Pull \/ SizeHint

Spec == Init /\ [][Next]_vars

\* ------------------------------------------- builder and two Strategies
\* builder(): StrategyBuilder::default(), nothing built yet
InitBuilder ==
    /\ builder = StrategyBuilder_default
    /\ last_selector = "none"
    /\ overflow_checks \in BOOLEAN
    /\ duration = 0
    /\ duration_max = <<>>
    /\ kind = DefaultKind
    /\ jitter = 0
    /\ initial = 0
    /\ pulls = 0
    /\ pc = "unbuilt"
    /\ base = 0
    /\ spread = 0
    /\ draw = 0
    /\ jittered = 0
    /\ item = <<>>
    /\ other = NotBuilt
    /\ hint = <<>>

\* the builder is in use until the second Strategy is built
BuilderLive == other.pc = "unbuilt"

\* StrategyBuilder::duration (derived setter)
SetDuration ==
    /\ BuilderLive
    /\ \E d \in SetterDurations : builder' = [builder EXCEPT !.duration = <<d>>]
    /\ UNCHANGED strategy
    /\ UNCHANGED <<overflow_checks, last_selector, other, hint>>

\* StrategyBuilder::duration_max (derived setter, Into<Option<Duration>>)
SetDurationMax ==
    /\ BuilderLive
    /\ \E m \in SetterDurationMaxes :
          builder' = [builder EXCEPT !.duration_max = <<m>>]
    /\ UNCHANGED strategy
    /\ UNCHANGED <<overflow_checks, last_selector, other, hint>>

\* StrategyBuilder::jitter (derived setter)
SetJitter ==
    /\ BuilderLive
    /\ \E r \in SetterJitters : builder' = [builder EXCEPT !.jitter = <<r>>]
    /\ UNCHANGED strategy
    /\ UNCHANGED <<overflow_checks, last_selector, other, hint>>

\* mutant: fixed() selects Exponential
Fixed_SelectsExponential ==
    /\ BuilderLive
    /\ builder' = [builder EXCEPT !.kind = <<"Exponential">>]
    /\ last_selector' = "fixed"
    /\ UNCHANGED strategy
    /\ UNCHANGED <<overflow_checks, other, hint>>
\* StrategyBuilder::fixed
Fixed ==
    /\ BuilderLive
    /\ builder' = [builder EXCEPT !.kind = <<"Fixed">>]
    /\ last_selector' = "fixed"
    /\ UNCHANGED strategy
    /\ UNCHANGED <<overflow_checks, other, hint>>

\* StrategyBuilder::exponential
Exponential ==
    /\ BuilderLive
    /\ builder' = [builder EXCEPT !.kind = <<"Exponential">>]
    /\ last_selector' = "exponential"
    /\ UNCHANGED strategy
    /\ UNCHANGED <<overflow_checks, other, hint>>

\* mutant: an unset duration is built as zero
Built_ZeroDuration(b) ==
    [duration |-> UnwrapOr(b.duration, 0),
     duration_max |-> UnwrapOr(b.duration_max, <<>>),
     kind |-> UnwrapOr(b.kind, DefaultKind),
     jitter |-> UnwrapOr(b.jitter, DefaultJitter)]
\* the fields StrategyBuilder::build clones out of the builder, each with its
\* #[builder(default)]
Built(b) ==
    [duration |-> UnwrapOr(b.duration, DefaultDuration),
     duration_max |-> UnwrapOr(b.duration_max, <<>>),
     kind |-> UnwrapOr(b.kind, DefaultKind),
     jitter |-> UnwrapOr(b.jitter, DefaultJitter)]

\* mutant: the second Strategy takes over the stored base of the first
Build_SharesDuration ==
    /\ BuilderLive
    /\ LET s == Built(builder) IN
       IF pc = "unbuilt"
       THEN /\ duration' = s.duration
            /\ duration_max' = s.duration_max
            /\ kind' = s.kind
            /\ jitter' = s.jitter
            /\ initial' = s.duration
            /\ pulls' = 0
            /\ pc' = "built"
            /\ base' = s.duration
            /\ spread' = 0
            /\ draw' = 0
            /\ jittered' = s.duration
            /\ item' = <<>>
            /\ UNCHANGED other
       ELSE /\ other' = [duration |-> duration,
                         duration_max |-> s.duration_max,
                         kind |-> s.kind, jitter |-> s.jitter,
                         initial |-> duration, pulls |-> 0,
                         pc |-> "built", drew |-> 0]
            /\ UNCHANGED strategy
    /\ UNCHANGED <<overflow_checks, builder, last_selector, hint>>
\* StrategyBuilder::build (derived, &self): Ok(Strategy) for every builder,
\* since every field has a default; the first call builds the first Strategy
\* and the second call the other one
Build ==
    /\ BuilderLive
    /\ LET s == Built(builder) IN
       IF pc = "unbuilt"
       THEN /\ duration' = s.duration
            /\ duration_max' = s.duration_max
            /\ kind' = s.kind
            /\ jitter' = s.jitter
            /\ initial' = s.duration
            /\ pulls' = 0
            /\ pc' = "built"
            /\ base' = s.duration
            /\ spread' = 0
            /\ draw' = 0
            /\ jittered' = s.duration
            /\ item' = <<>>
            /\ UNCHANGED other
       ELSE /\ other' = [duration |-> s.duration,
                         duration_max |-> s.duration_max,
                         kind |-> s.kind, jitter |-> s.jitter,
                         initial |-> s.duration, pulls |-> 0,
                         pc |-> "built", drew |-> 0]
            /\ UNCHANGED strategy
    /\ UNCHANGED <<overflow_checks, builder, last_selector, hint>>

\* the stored base update_duration writes, on the fields of the other
\* Strategy
NextStoredOf(k, m, d) ==
    IF m # <<>> THEN Min(Kind_next(k, d), m[1]) ELSE Kind_next(k, d)

\* Iterator::next -> update_duration -> j of the first Strategy
PullFirst == pulls < BuilderPulls /\ Pull

\* mutant: the stored base follows the jittered value
PullOther_StoresJittered ==
    /\ other.pc # "unbuilt"
    /\ other.pc # "panicked"
    /\ other.pulls < BuilderPulls
    /\ \E s \in SpreadValues(other.duration, other.jitter) :
          IF JPanics(s)
          THEN other' = [other EXCEPT
                  !.pulls = @ + 1,
                  !.duration = NextStoredOf(other.kind, other.duration_max, @),
                  !.pc = "panicked"]
          ELSE \E j \in Draws(s) :
               other' = [other EXCEPT
                  !.pulls = @ + 1,
                  !.duration = NextStoredOf(other.kind, other.duration_max,
                                            Jitter(@, j)),
                  !.drew = Sign(j),
                  !.pc = "returned"]
    /\ UNCHANGED strategy
    /\ UNCHANGED <<overflow_checks, builder, last_selector, hint>>
\* Iterator::next -> update_duration -> j of the other Strategy
PullOther ==
    /\ other.pc # "unbuilt"
    /\ other.pc # "panicked"
    /\ other.pulls < BuilderPulls
    /\ \E s \in SpreadValues(other.duration, other.jitter) :
          IF JPanics(s)
          THEN other' = [other EXCEPT
                  !.pulls = @ + 1,
                  !.duration = NextStoredOf(other.kind, other.duration_max, @),
                  !.pc = "panicked"]
          ELSE \E j \in Draws(s) :
               other' = [other EXCEPT
                  !.pulls = @ + 1,
                  !.duration = NextStoredOf(other.kind, other.duration_max, @),
                  !.drew = Sign(j),
                  !.pc = "returned"]
    /\ UNCHANGED strategy
    /\ UNCHANGED <<overflow_checks, builder, last_selector, hint>>

NextBuilder ==
    \/ SetDuration
    \/ SetDurationMax
    \/ SetJitter
    \/ Fixed
    \/ Exponential
    \/ Build
    \/ PullFirst
    \/ PullOther

SpecBuilder == InitBuilder /\ [][NextBuilder]_vars

\* repeated pulls: a consumer that keeps calling next()
SpecRepeated == Init /\ [][Next]_vars /\ WF_vars(Pull)

TypeOK ==
    /\ duration \in 0 .. DURATION_MAX
    /\ pc \in {"unbuilt", "built", "returned", "panicked"}
    /\ pulls \in 0 .. MaxPulls
    /\ spread \in I32_MIN .. I32_MAX
    /\ draw \in I32_MIN .. I32_MAX
    /\ jittered \in 0 .. DURATION_MAX
    /\ (pc = "returned" => item # <<>> /\ item[1] \in 0 .. DURATION_MAX)

\* ------------------------------------------------------------------ claims
Returned == pc = "returned"
HasMax == duration_max # <<>>
Pow2(n) == 2 ^ n
\* initial * 2^(N-1) for the N-th pull
Doubled(n) == initial * Pow2(n - 1)

\* C1: with duration_max = Some(M), every value returned by next() is <= M.
C1_ItemBelowMax ==
    (Returned /\ HasMax) => item[1] <= duration_max[1]
\* a pull whose jittered value exceeded M, from an initial duration above M
C1_Witness ==
    /\ Returned /\ HasMax
    /\ initial > duration_max[1]
    /\ jittered > duration_max[1]
    /\ item[1] = duration_max[1]

\* C2 (as stated): with duration_max = Some(M), the stored base is <= M in
\* every state from build() onwards.
C2_StoredBelowMaxAlways ==
    HasMax => duration <= duration_max[1]
\* C2 (amended): with duration_max = Some(M), the stored base is <= M after
\* every pull, and already at build() when the initial duration is <= M.
C2_StoredBelowMaxAfterPull ==
    (HasMax /\ (pulls > 0 \/ initial <= duration_max[1]))
        => duration <= duration_max[1]
\* the first pull brought a base that started above M down to M
C2_Witness ==
    /\ HasMax
    /\ initial > duration_max[1]
    /\ pulls = 1
    /\ duration = duration_max[1]

\* C3: with jitter in [0,1] no pull fails: the range computation in j()
\* never overflows and never yields an empty range.
C3_NoPullPanics ==
    (jitter >= 0 /\ jitter <= JitterDen) => pc # "panicked"

\* C4: every call of next() returns Some(duration).
C4_NextReturnsSome ==
    (pulls > 0 /\ jitter >= 0 /\ jitter <= JitterDen)
        => (Returned /\ Len(item) = 1)

\* C5 (as stated): Fixed with jitter 0 returns the initial duration on every
\* pull, for every duration_max setting.
C5_FixedReturnsInitial ==
    (Returned /\ kind = "Fixed" /\ jitter = 0) => item[1] = initial
\* C5 (amended): Fixed with jitter 0 returns, on every pull, the initial
\* duration, or M when duration_max = Some(M) is below the initial duration.
C5_FixedReturnsInitialOrMax ==
    (Returned /\ kind = "Fixed" /\ jitter = 0)
        => item[1] = IF HasMax THEN Min(initial, duration_max[1]) ELSE initial
\* a later pull of a Fixed Strategy whose ceiling is below its initial duration
C5_Witness ==
    /\ Returned /\ kind = "Fixed" /\ jitter = 0
    /\ pulls >= 2
    /\ HasMax /\ initial > duration_max[1]
    /\ item[1] = duration_max[1]

\* C6: Exponential with jitter 0 and no duration_max returns
\* min(initial * 2^(N-1), Duration::MAX) on the N-th pull.
C6_ExponentialNth ==
    (Returned /\ kind = "Exponential" /\ jitter = 0 /\ ~HasMax)
        => item[1] = Min(Doubled(pulls), DURATION_MAX)
\* a pull that returned the saturated maximum after doubling past it
C6_Witness ==
    /\ Returned /\ kind = "Exponential" /\ jitter = 0 /\ ~HasMax
    /\ initial > 0
    /\ Doubled(pulls) > DURATION_MAX
    /\ item[1] = DURATION_MAX

C8_NonDecreasing ==
    [][(pc' = "returned" /\ kind = "Exponential" /\ jitter = DefaultJitter
            /\ ~HasMax /\ pulls' <= 10)
        => item'[1] >= (IF item = <<>> THEN 0 ELSE item[1])]_vars
\* the 10th pull returned, after a downward draw
C8_Witness ==
    /\ Returned /\ kind = "Exponential" /\ jitter = DefaultJitter /\ ~HasMax
    /\ pulls = 10
    /\ draw < 0

\* C9: Exponential with jitter 0 and duration_max = Some(M) returns
\* min(initial * 2^(N-1), M) on the N-th pull; for 2s and 10s: 2s, 4s, 8s,
\* then 10s.
C9_ExponentialNthWithMax ==
    (Returned /\ kind = "Exponential" /\ jitter = 0 /\ HasMax) =>
        /\ item[1] = Min(Doubled(pulls), duration_max[1])
        /\ (initial = 2 * MILLIS_PER_SEC /\ duration_max[1] = 10 * MILLIS_PER_SEC)
            => item[1] = CASE pulls = 1 -> 2 * MILLIS_PER_SEC
                           [] pulls = 2 -> 4 * MILLIS_PER_SEC
                           [] pulls = 3 -> 8 * MILLIS_PER_SEC
                           [] OTHER -> 10 * MILLIS_PER_SEC
\* the 4th pull of the 2s / 10s scenario returned the ceiling
C9_Witness ==
    /\ Returned /\ kind = "Exponential" /\ jitter = 0
    /\ initial = 2 * MILLIS_PER_SEC
    /\ duration_max = <<10 * MILLIS_PER_SEC>>
    /\ pulls = 4
    /\ item = <<10 * MILLIS_PER_SEC>>

\* the 2s / Exponential / jitter 0 / 10s scenario
Scenario2s10s ==
    /\ initial = 2 * MILLIS_PER_SEC
    /\ kind = "Exponential"
    /\ jitter = 0
    /\ duration_max = <<10 * MILLIS_PER_SEC>>

\* C10 (as stated): in the 2s / 10s scenario the stored base after the 1st,
\* 2nd, 3rd and 4th pull is 2s, 4s, 8s and 10s, and 10s after later pulls.
C10_StoredAfterPull ==
    (Scenario2s10s /\ pulls >= 1)
        => duration = CASE pulls = 1 -> 2 * MILLIS_PER_SEC
                        [] pulls = 2 -> 4 * MILLIS_PER_SEC
                        [] pulls = 3 -> 8 * MILLIS_PER_SEC
                        [] OTHER -> 10 * MILLIS_PER_SEC
\* C10 (amended): in the 2s / 10s scenario the stored base is 2s at build()
\* and 4s, 8s and 10s after the 1st, 2nd and 3rd pull, and 10s after every
\* later pull: 2s, 4s, 8s, 10s are the bases before the 1st to 4th pull.
C10_StoredBeforePull ==
    Scenario2s10s
        => duration = CASE pulls = 0 -> 2 * MILLIS_PER_SEC
                        [] pulls = 1 -> 4 * MILLIS_PER_SEC
                        [] pulls = 2 -> 8 * MILLIS_PER_SEC
                        [] OTHER -> 10 * MILLIS_PER_SEC
\* the 3rd pull stored the ceiling instead of 16s
C10_Witness ==
    /\ Scenario2s10s
    /\ pulls = 3
    /\ Returned
    /\ duration = 10 * MILLIS_PER_SEC

\* C11: a pull leaves kind, duration_max and jitter as they were.
C11_PullKeepsConfig ==
    [][pulls' # pulls
        => (kind' = kind /\ duration_max' = duration_max /\ jitter' = jitter)]_vars
\* pulls that moved the stored base up to the ceiling
C11_Witness ==
    /\ Returned
    /\ pulls >= 2
    /\ HasMax
    /\ kind = "Exponential"
    /\ duration # initial
    /\ duration = duration_max[1]

BuildsFirst == pc = "unbuilt" /\ pc' = "built"
BuildsOther == other.pc = "unbuilt" /\ other'.pc = "built"

\* C12: two Strategies built from one builder are independent: each starts
\* from the duration configured on the builder, and a pull of one leaves
\* every field of the other unchanged.
C12_BuildsIndependent ==
    [][/\ BuildsFirst => duration' = UnwrapOr(builder.duration, DefaultDuration)
       /\ BuildsOther =>
            /\ other'.duration = UnwrapOr(builder.duration, DefaultDuration)
            /\ UNCHANGED strategy
       /\ pulls' # pulls => other' = other
       /\ other'.pulls # other.pulls => UNCHANGED strategy]_vars
\* the second Strategy was built after the first had grown, and was pulled
\* while the first stayed where it was
C12_Witness ==
    /\ pc = "returned"
    /\ pulls = 1
    /\ duration > initial
    /\ other.pc = "returned"
    /\ other.pulls = 2
    /\ other.initial = initial
    /\ other.duration > duration

SelectedKind ==
    IF last_selector = "fixed" THEN "Fixed" ELSE "Exponential"

\* C13: the built kind is the one of the last fixed() / exponential() call,
\* Exponential when neither was called; the other setters leave the
\* selection alone.
C13_LastSelectorWins ==
    [][/\ BuildsFirst => kind' = SelectedKind
       /\ BuildsOther => other'.kind = SelectedKind
       /\ last_selector' = last_selector => builder'.kind = builder.kind]_vars
\* fixed() then build(), exponential() then build(), with duration set
C13_Witness ==
    /\ pc = "built"
    /\ kind = "Fixed"
    /\ other.pc = "built"
    /\ other.kind = "Exponential"
    /\ last_selector = "exponential"
    /\ builder.duration # <<>>

\* C14: build() succeeds for every builder, and every field not set takes
\* its default (2s, no duration_max, Exponential, 0.1) whatever else is set.
C14_BuildDefaults ==
    /\ [](BuilderLive => ENABLED Build)
    /\ [][/\ BuildsFirst =>
              /\ duration' = IF builder.duration = <<>>
                             THEN 2 * MILLIS_PER_SEC ELSE builder.duration[1]
              /\ duration_max' = IF builder.duration_max = <<>>
                                 THEN <<>> ELSE builder.duration_max[1]
              /\ kind' = IF builder.kind = <<>>
                         THEN "Exponential" ELSE builder.kind[1]
              /\ jitter' = IF builder.jitter = <<>>
                           THEN DefaultJitter ELSE builder.jitter[1]
          /\ BuildsOther =>
              /\ other'.duration = IF builder.duration = <<>>
                                   THEN 2 * MILLIS_PER_SEC ELSE builder.duration[1]
              /\ other'.duration_max = IF builder.duration_max = <<>>
                                       THEN <<>> ELSE builder.duration_max[1]
              /\ other'.kind = IF builder.kind = <<>>
                               THEN "Exponential" ELSE builder.kind[1]
              /\ other'.jitter = IF builder.jitter = <<>>
                                 THEN DefaultJitter ELSE builder.jitter[1]]_vars
\* builder().build() with no setter called
C14_Witness ==
    /\ builder = StrategyBuilder_default
    /\ last_selector = "none"
    /\ pc = "built"
    /\ duration = 2 * MILLIS_PER_SEC
    /\ duration_max = <<>>
    /\ kind = "Exponential"
    /\ jitter = DefaultJitter

\* C15: size_hint() returns (usize::MAX, None) in every state of a Strategy
\* and changes nothing of it.
C15_SizeHintUnbounded ==
    /\ [](hint # <<>> => (hint[1][1] = USIZE_MAX /\ hint[1][2] = <<>>))
    /\ [][hint' # hint => UNCHANGED strategy]_vars
\* size_hint() was called on a Strategy that has panicked
C15_Witness ==
    /\ hint # <<>>
    /\ pc = "panicked"
    /\ pulls >= 2

\* C16: with a jitter ratio outside [0,1] every pull still completes, and a
\* downward draw larger than the base returns zero.
C16_OutsideRangeCompletes ==
    (jitter < 0 \/ jitter > JitterDen) =>
        /\ pc # "panicked"
        /\ (Returned /\ base + draw < 0) => jittered = 0

\* C17: with no duration_max a pull stores min(2 * base, Duration::MAX) under
\* Exponential (never less than before, and the maximum stays) and leaves
\* the stored base as it was under Fixed.
C17_GrowthSaturates ==
    [][(pulls' # pulls /\ ~HasMax) =>
          /\ kind = "Exponential" =>
                /\ duration' = Min(2 * duration, DURATION_MAX)
                /\ duration' >= duration
                /\ duration' <= DURATION_MAX
                /\ duration = DURATION_MAX => duration' = DURATION_MAX
          /\ kind = "Fixed" => duration' = duration]_vars
\* a pull made at the maximum duration left it there
C17_Witness ==
    /\ kind = "Exponential" /\ ~HasMax
    /\ initial < DURATION_MAX
    /\ Returned
    /\ base = DURATION_MAX
    /\ duration = DURATION_MAX

\* C18 (as stated): for every configuration the stored base after a pull is
\* >= the stored base before it.
C18_StoredNeverDecreases ==
    [][duration' >= duration]_vars
\* C18 (amended): the stored base after a pull is >= the stored base before
\* it, except on the first pull of a Strategy whose initial duration is above
\* duration_max = Some(M), which lowers it to M.
C18_StoredDecreasesOnlyToMax ==
    [][\/ duration' >= duration
       \/ /\ pulls = 0
          /\ HasMax
          /\ duration > duration_max[1]
          /\ duration' = duration_max[1]]_vars
\* the stored base grew on a pull whose draw was downward
C18_Witness ==
    /\ Returned
    /\ pulls >= 2
    /\ draw < 0
    /\ duration > base
    /\ jittered < base

SameConfig ==
    /\ pc # "unbuilt"
    /\ other.pc # "unbuilt"
    /\ other.initial = initial
    /\ other.kind = kind
    /\ other.duration_max = duration_max
    /\ other.jitter = jitter

\* C19: two Strategies with the same configuration have the same stored base
\* after the same number of pulls, whatever was drawn.
C19_StoredIgnoresDraws ==
    (SameConfig /\ other.pulls = pulls) => other.duration = duration
\* two Strategies of one configuration whose last draws went opposite ways
C19_Witness ==
    /\ SameConfig
    /\ pulls = 2
    /\ other.pulls = 2
    /\ pc = "returned"
    /\ other.pc = "returned"
    /\ draw < 0
    /\ other.drew = 1
    /\ duration > initial

AtCeiling == pulls = MaxPulls \/ (HasMax /\ duration = duration_max[1])

\* C20: under Exponential with duration_max = Some(M) and a non-zero initial
\* duration, repeated pulls bring the stored base to M, where it stays (here
\* for jitter in [0,1], and up to the pulls explored); from zero it stays zero.
C20_ReachesCeiling ==
    /\ (kind = "Exponential" /\ HasMax /\ initial > 0
            /\ jitter >= 0 /\ jitter <= JitterDen)
        => <>[]AtCeiling
    /\ (kind = "Exponential" /\ HasMax /\ initial = 0) => [](duration = 0)
====
